---- MODULE Spec2Model ----
(***************************************************************************)
(* cTCP connection engine (src/ctcp.c): two hosts A and B, each running    *)
(* one engine, joined by a datagram carrier.  Every handler of ctcp.c      *)
(* (ctcp_read, ctcp_receive, ctcp_timer) is one action; the helpers it     *)
(* calls are operators on an engine record, applied inside the action.     *)
(***************************************************************************)
EXTENDS Integers, Sequences, FiniteSets, TLC

(***************************************************************************)
(* Bounds of the model.                                                    *)
(***************************************************************************)
\* MAX_SEG_DATA_SIZE of ctcp.h, scaled down: the largest payload of a segment.
\* It stays below 15, so the "###truncate###" branch of ctcp_read (byte_read
\* > 14) is never taken.
MaxSegData == 2
\* cfg->send_window and cfg->recv_window, in segments of MaxSegData bytes.
WindowSegs == 1
\* Bytes a host's source can supply before it is exhausted.
MaxBytes == 3
\* conn_input calls that return data within one ctcp_read.
MaxChunks == 2
\* Datagrams in flight towards a host beyond which its peer starts no new
\* read or timer handler (the handlers that originate traffic).
ChanCap == 2
\* ctcp_timer is not run for an engine whose time_out_num reached this value.
MaxRetx == 1
\* timer_overflow = ceil(rt_timeout / timer), ctcp_init line 169.
TimerOverflow == 2
\* Largest sequence / acknowledgement number of a datagram the open carrier
\* delivers.
MaxInjNo == 2
\* Payload bytes the open carrier's peer gets accepted in total.
MaxSink == 3

\* The sixth timeout forces the teardown (ctcp_timer).
TimeoutLimit == 6
\* sizeof(ctcp_segment_t): 4 + 4 + 2 + 2 + 4 + 2 bytes.
HeaderSize == 18

Procs == {"A", "B"}
Peer(e) == IF e = "A" THEN "B" ELSE "A"

NO_CLOSE == "NO_CLOSE"
ACTIVE_CLOSE == "ACTIVE_CLOSE"
PASSIVE_CLOSE == "PASSIVE_CLOSE"

FIN == "FIN"
ACK == "ACK"

\* uint32_t arithmetic.  The sequence numbers of the model stay below
\* MaxBytes + MaxInjNo + 3, far from 2^32, so the reduction modulo 2^32
\* never applies and is left out.
U32(n) == n
U16(n) == n % 65536
U8(n) == n % 256

VARIABLES
  conn_state,        \* [e -> Conn_state]
  ack_state,         \* [e -> ACK_state]
  tx_state,          \* [e -> Seq(TX_state)], the Send Queue
  rx_state,          \* [e -> Seq(RX_state)], the Receive Queue
  segment_teardown,  \* [e -> Teardown_state]
  state_list,        \* [e -> registry of host e: <<e>> while its engine lives]
  hung,              \* [e -> host e spins in a busy-wait loop]
  chan,              \* [e -> datagrams in flight towards host e]
  src_read,          \* [e -> bytes conn_input has returned so far]
  src_eof,           \* [e -> conn_input has returned -1]
  sink,              \* [e -> bytes conn_output has written]
  sink_eof,          \* [e -> conn_output was called with length 0]
  last               \* open carrier: the handler that ran last, whether its
                     \* datagram was valid, and the segments it emitted

vars == <<conn_state, ack_state, tx_state, rx_state, segment_teardown,
          state_list, hung, chan, src_read, src_eof, sink, sink_eof, last>>

(***************************************************************************)
(* Segment codec (ctcp_utils.h, ctcp_sys.h).  A segment is the record of   *)
(* its header fields and payload; the advertised window, which no handler  *)
(* of ctcp.c reads, is left out.                                           *)
(***************************************************************************)
RECURSIVE Fold16(_)
Fold16(n) == IF n < 65536 THEN n ELSE Fold16((n % 65536) + (n \div 65536))

RECURSIVE SumWords(_)
SumWords(d) ==
  IF Len(d) = 0 THEN 0
  ELSE IF Len(d) = 1 THEN 256 * d[1]
  ELSE 256 * d[1] + d[2] + SumWords(SubSeq(d, 3, Len(d)))

FlagWord(flags) ==
  (IF FIN \in flags THEN 1 ELSE 0) + (IF ACK \in flags THEN 16 ELSE 0)

\* 16-bit one's-complement sum over header and payload; the caller zeroes the
\* cksum field first.
cksum(seg) ==
  65535 - Fold16((seg.seqno \div 65536) + (seg.seqno % 65536)
                 + (seg.ackno \div 65536) + (seg.ackno % 65536)
                 + seg.len + seg.cksum + FlagWord(seg.flags)
                 + SumWords(seg.data))

\* conn_send: the whole datagram leaves in one call.
conn_send(s, seg) ==
  [s EXCEPT !.out = Append(@, [segment |-> seg, len |-> seg.len])]

(***************************************************************************)
(* Sending.                                                                *)
(***************************************************************************)
ctcp_send_flags(s, ackno, flags) ==
  LET seg0 == [seqno |-> s.conn_state.seqno, ackno |-> ackno,
               len |-> HeaderSize, cksum |-> 0, flags |-> flags,
               data |-> <<>>]
  IN conn_send(s, [seg0 EXCEPT !.cksum = cksum(seg0)])

\* i: position in the Send Queue of the node to transmit.
\* ctcp_send_data_segment recording the tag before advancing next_seqno.
ctcp_send_data_segment_tagfirst(s, i) ==
  LET node == s.tx_state[i]
      seg0 == [seqno |-> s.conn_state.next_seqno,
               ackno |-> s.conn_state.ackno,
               len |-> HeaderSize + node.buffer_size, cksum |-> 0,
               flags |-> {}, data |-> node.tx_buffer]
      nxt == U32(s.conn_state.next_seqno + node.buffer_size)
      s1 == [s EXCEPT !.conn_state.next_seqno = nxt,
                      !.tx_state[i].segment_next_seqno =
                          s.conn_state.next_seqno]
      s2 == conn_send(s1, [seg0 EXCEPT !.cksum = cksum(seg0)])
  IN [s2 EXCEPT !.ack_state.time_out = TRUE]

ctcp_send_data_segment(s, i) ==
  LET node == s.tx_state[i]
      seg0 == [seqno |-> s.conn_state.next_seqno,
               ackno |-> s.conn_state.ackno,
               len |-> HeaderSize + node.buffer_size, cksum |-> 0,
               flags |-> {}, data |-> node.tx_buffer]
      nxt == U32(s.conn_state.next_seqno + node.buffer_size)
      s1 == [s EXCEPT !.conn_state.next_seqno = nxt,
                      !.tx_state[i].segment_next_seqno = nxt]
      s2 == conn_send(s1, [seg0 EXCEPT !.cksum = cksum(seg0)])
  IN [s2 EXCEPT !.ack_state.time_out = TRUE]

RECURSIVE SendWalk(_, _)
SendWalk(s, i) ==
  IF i > Len(s.tx_state) THEN s
  ELSE IF s.tx_state[i].buffer_size + s.conn_state.send_window_used
          > s.conn_state.send_window THEN s
  ELSE LET s1 == ctcp_send_data_segment(s, i)
       IN SendWalk([s1 EXCEPT !.conn_state.send_window_used =
                       U16(@ + s.tx_state[i].buffer_size)], i + 1)

\* ctcp_send_possible_data_segment without rewinding next_seqno to seqno.
ctcp_send_possible_data_segment_norewind(s) ==
  SendWalk([s EXCEPT !.conn_state.send_window_used = 0], 1)

ctcp_send_possible_data_segment(s) ==
  SendWalk([s EXCEPT !.conn_state.send_window_used = 0,
                     !.conn_state.next_seqno = s.conn_state.seqno], 1)

(***************************************************************************)
(* ctcp_read.                                                              *)
(***************************************************************************)
RECURSIVE AddChunks(_, _)
AddChunks(tx, chunks) ==
  IF chunks = <<>> THEN tx
  ELSE AddChunks(Append(tx, [segment_next_seqno |-> 0,
                             buffer_size |-> Len(Head(chunks)),
                             tx_buffer |-> Head(chunks)]), Tail(chunks))

\* chunks: what the successive conn_input calls return before the call that
\* returns term (0: nothing more now, -1: end of source).  spin: what a
\* busy-wait loop `while(q->length > 0);` on a non-empty queue does in this
\* build: it never ends ("hang"), or the compiler, allowed to assume that the
\* loop terminates, removed it ("skip").
ctcp_read(s, chunks, term, spin) ==
  LET s1 == [s EXCEPT !.tx_state = AddChunks(@, chunks)]
  IN IF term = 0 THEN ctcp_send_possible_data_segment(s1)
     ELSE IF (Len(s1.rx_state) > 0 \/ Len(s1.tx_state) > 0) /\ spin = "hang"
          THEN [s1 EXCEPT !.hung = TRUE]
     ELSE LET s2 == [s1 EXCEPT !.segment_teardown = ACTIVE_CLOSE]
              s3 == ctcp_send_flags(s2, s2.conn_state.ackno, {FIN})
              s4 == [s3 EXCEPT !.ack_state.time_out = TRUE]
          IN ctcp_send_possible_data_segment(s4)

(***************************************************************************)
(* Delivery to the sink.                                                   *)
(***************************************************************************)
Min(a, b) == IF a < b THEN a ELSE b

\* ctcp_output writing from the start of rx_buffer instead of from byte_used.
RECURSIVE ctcp_output_restart(_, _, _)
ctcp_output_restart(s, space, accept) ==
  IF Len(s.rx_state) = 0 THEN s
  ELSE LET node == Head(s.rx_state)
       IN IF space = 0 \/ node.byte_left > space THEN s
          ELSE LET byte_sent == Min(node.byte_left, accept)
                   s1 == [s EXCEPT
                            !.sink = @ \o SubSeq(node.rx_buffer, 1, byte_sent),
                            !.sink_eof = @ \/ node.byte_left = 0,
                            !.rx_state[1].byte_used = @ + byte_sent,
                            !.rx_state[1].byte_left = @ - byte_sent,
                            !.conn_state.rcv_window_used = U16(@ - byte_sent)]
               IN IF s1.rx_state[1].byte_left <= 0
                  THEN LET s2 == ctcp_send_flags(s1, s1.conn_state.ackno, {ACK})
                       IN ctcp_output_restart([s2 EXCEPT !.rx_state = Tail(@)],
                                              space - byte_sent,
                                              accept - byte_sent)
                  ELSE s1

\* space: what conn_bufspace returns; accept: the bytes the sink still takes
\* in this handler (conn_output returns a short count once it runs out).
\* Both decrease by the bytes written.
RECURSIVE ctcp_output(_, _, _)
ctcp_output(s, space, accept) ==
  IF Len(s.rx_state) = 0 THEN s
  ELSE LET node == Head(s.rx_state)
       IN IF space = 0 \/ node.byte_left > space THEN s
          ELSE LET byte_sent == Min(node.byte_left, accept)
                   s1 == [s EXCEPT
                            !.sink = @ \o SubSeq(node.rx_buffer,
                                                 node.byte_used + 1,
                                                 node.byte_used + byte_sent),
                            !.sink_eof = @ \/ node.byte_left = 0,
                            !.rx_state[1].byte_used = @ + byte_sent,
                            !.rx_state[1].byte_left = @ - byte_sent,
                            !.conn_state.rcv_window_used = U16(@ - byte_sent)]
               IN IF s1.rx_state[1].byte_left <= 0
                  THEN LET s2 == ctcp_send_flags(s1, s1.conn_state.ackno, {ACK})
                       IN ctcp_output([s2 EXCEPT !.rx_state = Tail(@)],
                                      space - byte_sent, accept - byte_sent)
                  ELSE s1

(***************************************************************************)
(* Receiving.                                                              *)
(***************************************************************************)
ctcp_destroy(s) ==
  [s EXCEPT !.live = FALSE, !.tx_state = <<>>, !.rx_state = <<>>]

\* ctcp_receive_data_segment without its receive-window test.
ctcp_receive_data_segment_unbounded(s, seg, len, space, accept) ==
  LET data_seg_len == len - HeaderSize
      s1 == [s EXCEPT
               !.conn_state.last_ackno = s.conn_state.ackno,
               !.conn_state.ackno = U32(seg.seqno + seg.len - HeaderSize),
               !.rx_state = Append(@, [byte_used |-> 0,
                                       byte_left |-> data_seg_len,
                                       rx_buffer |-> seg.data]),
               !.conn_state.rcv_window_used = U16(@ + data_seg_len)]
  IN ctcp_output(s1, space, accept)

ctcp_receive_data_segment(s, seg, len, space, accept) ==
  LET data_seg_len == len - HeaderSize
      s1 == IF s.conn_state.rcv_window_used + data_seg_len
               <= s.conn_state.rcv_window
            THEN [s EXCEPT
                    !.conn_state.last_ackno = s.conn_state.ackno,
                    !.conn_state.ackno = U32(seg.seqno + seg.len - HeaderSize),
                    !.rx_state = Append(@, [byte_used |-> 0,
                                            byte_left |-> data_seg_len,
                                            rx_buffer |-> seg.data]),
                    !.conn_state.rcv_window_used = U16(@ + data_seg_len)]
            ELSE s
  IN ctcp_output(s1, space, accept)

ctcp_receive_fin_with_no_ack(s, seg, spin) ==
  LET s1 == [s EXCEPT !.conn_state.last_ackno = s.conn_state.ackno,
                      !.conn_state.ackno = U32(seg.seqno + 1)]
  IN IF s1.segment_teardown # ACTIVE_CLOSE
     THEN LET s2 == [s1 EXCEPT !.sink_eof = TRUE]
              s3 == ctcp_send_flags(s2, s2.conn_state.ackno, {ACK})
          IN IF Len(s3.rx_state) > 0 /\ spin = "hang"
             THEN [s3 EXCEPT !.hung = TRUE]
             ELSE LET s4 == ctcp_send_flags(s3, s3.conn_state.ackno, {FIN})
                  IN [s4 EXCEPT !.ack_state.time_out = TRUE,
                                !.segment_teardown = PASSIVE_CLOSE]
     ELSE ctcp_destroy(ctcp_send_flags(s1, s1.conn_state.ackno, {ACK}))

\* The ACK_SEG case as a single step: only the head element is dropped.
AckWalkOne(s, segment_ackno) ==
  IF Len(s.tx_state) = 0 THEN s
  ELSE LET node == Head(s.tx_state)
       IN IF segment_ackno >= node.segment_next_seqno
             /\ node.segment_next_seqno > 0
          THEN [s EXCEPT !.conn_state.seqno = node.segment_next_seqno,
                         !.conn_state.send_window_used =
                             U16(@ - node.buffer_size),
                         !.tx_state = Tail(@)]
          ELSE s

\* The ACK_SEG loop without its test segment_next_seqno > 0: elements that
\* were never transmitted are removed and subtracted as well.
RECURSIVE AckWalkUnsent(_, _)
AckWalkUnsent(s, segment_ackno) ==
  IF Len(s.tx_state) = 0 THEN s
  ELSE LET node == Head(s.tx_state)
       IN IF segment_ackno >= node.segment_next_seqno
          THEN AckWalkUnsent([s EXCEPT
                                !.conn_state.seqno = node.segment_next_seqno,
                                !.conn_state.send_window_used =
                                    U16(@ - node.buffer_size),
                                !.tx_state = Tail(@)], segment_ackno)
          ELSE s

\* The while loop of the ACK_SEG case: drop the acknowledged head elements.
RECURSIVE AckWalk(_, _)
AckWalk(s, segment_ackno) ==
  IF Len(s.tx_state) = 0 THEN s
  ELSE LET node == Head(s.tx_state)
       IN IF segment_ackno >= node.segment_next_seqno
             /\ node.segment_next_seqno > 0
          THEN AckWalk([s EXCEPT
                          !.conn_state.seqno = node.segment_next_seqno,
                          !.conn_state.send_window_used =
                              U16(@ - node.buffer_size),
                          !.tx_state = Tail(@)], segment_ackno)
          ELSE s

\* The ACK_SEG case disarming the timer on every ACK that reaches the head,
\* without the test segment_ackno == next_seqno of line 514.
ReceiveAckAlwaysDisarm(s, seg) ==
  IF s.segment_teardown = PASSIVE_CLOSE THEN ctcp_destroy(s)
  ELSE IF Len(s.tx_state) = 0 THEN s
  ELSE LET next_seqno == Head(s.tx_state).segment_next_seqno
           segment_ackno == seg.ackno
       IN IF segment_ackno >= next_seqno
          THEN LET s1 == AckWalk(s, segment_ackno)
               IN [s1 EXCEPT !.ack_state.time_out = FALSE,
                             !.ack_state.counter = 0,
                             !.ack_state.time_out_num = 0]
          ELSE s

\* The ACK_SEG case without the reset of counter and time_out_num.
ReceiveAckNoReset(s, seg) ==
  IF s.segment_teardown = PASSIVE_CLOSE THEN ctcp_destroy(s)
  ELSE IF Len(s.tx_state) = 0 THEN s
  ELSE LET next_seqno == Head(s.tx_state).segment_next_seqno
           segment_ackno == seg.ackno
       IN IF segment_ackno >= next_seqno
          THEN LET s1 == AckWalk(s, segment_ackno)
               IN IF segment_ackno = s1.conn_state.next_seqno
                  THEN [s1 EXCEPT !.ack_state.time_out = FALSE]
                  ELSE s1
          ELSE s

ReceiveAck(s, seg) ==
  IF s.segment_teardown = PASSIVE_CLOSE THEN ctcp_destroy(s)
  ELSE IF Len(s.tx_state) = 0 THEN s
  ELSE LET next_seqno == Head(s.tx_state).segment_next_seqno
           segment_ackno == seg.ackno
       IN IF segment_ackno >= next_seqno
          THEN LET s1 == AckWalk(s, segment_ackno)
                   s2 == IF segment_ackno = s1.conn_state.next_seqno
                         THEN [s1 EXCEPT !.ack_state.time_out = FALSE]
                         ELSE s1
               IN [s2 EXCEPT !.ack_state.counter = 0,
                             !.ack_state.time_out_num = 0]
          ELSE s

ReceiveFinAck(s, seg) ==
  LET s1 == [s EXCEPT !.conn_state.ackno = U32(seg.seqno + 1)]
  IN ctcp_destroy(ctcp_send_flags(s1, s1.conn_state.ackno, {ACK}))

IsData(seg) == FIN \notin seg.flags /\ ACK \notin seg.flags

IsDuplicate(s, seg) ==
  /\ seg.seqno # s.conn_state.ackno
  /\ seg.seqno = s.conn_state.last_ackno
  /\ ACK \notin seg.flags

CksumOk(seg) == seg.cksum = cksum([seg EXCEPT !.cksum = 0])

\* What the validation of ctcp_receive (lines 438-450) finds of datagram d.
Verdict(d) ==
  IF d.len # d.segment.len THEN "bad_len"
  ELSE IF ~CksumOk(d.segment) THEN "bad_cksum"
  ELSE "valid"

\* ctcp_receive without the checksum verification of lines 444-450.
ctcp_receive_unverified(s, seg, len, space, accept, spin) ==
  IF IsDuplicate(s, seg)
  THEN ctcp_send_flags(s, s.conn_state.last_ackno, {ACK})
  ELSE IF len # seg.len THEN s
  ELSE IF FIN \in seg.flags
       THEN IF ACK \in seg.flags THEN ReceiveFinAck(s, seg)
            ELSE ctcp_receive_fin_with_no_ack(s, seg, spin)
  ELSE IF ACK \in seg.flags THEN ReceiveAck(s, seg)
  ELSE ctcp_receive_data_segment(s, seg, len, space, accept)

\* seg, len: the datagram and the number of bytes received.
ctcp_receive(s, seg, len, space, accept, spin) ==
  IF IsDuplicate(s, seg)
  THEN ctcp_send_flags(s, s.conn_state.last_ackno, {ACK})
  ELSE IF len # seg.len THEN s
  ELSE IF ~CksumOk(seg) THEN s
  ELSE IF FIN \in seg.flags
       THEN IF ACK \in seg.flags THEN ReceiveFinAck(s, seg)
            ELSE ctcp_receive_fin_with_no_ack(s, seg, spin)
  ELSE IF ACK \in seg.flags THEN ReceiveAck(s, seg)
  ELSE ctcp_receive_data_segment(s, seg, len, space, accept)

(***************************************************************************)
(* ctcp_timer, for one engine of the registry.  The `continue` of the      *)
(* sixth timeout re-enters the loop body without advancing cur_state.      *)
(***************************************************************************)
RECURSIVE TimerEngine(_, _, _)
TimerEngine(s, space, accept) ==
  IF s.ack_state.time_out
  THEN LET c == U8(s.ack_state.counter + 1)
       IN IF c = s.ack_state.timer_overflow
          THEN LET n == U8(s.ack_state.time_out_num + 1)
                   s1 == [s EXCEPT !.ack_state.counter = 0,
                                   !.ack_state.time_out_num = n]
               IN IF n = TimeoutLimit
                  THEN LET s2 == ctcp_send_flags(s1, s1.conn_state.ackno, {FIN})
                       IN TimerEngine([s2 EXCEPT
                                         !.ack_state.time_out = TRUE,
                                         !.segment_teardown = ACTIVE_CLOSE],
                                      space, accept)
                  ELSE IF s1.segment_teardown \in {ACTIVE_CLOSE, PASSIVE_CLOSE}
                       THEN ctcp_send_flags(s1, s1.conn_state.last_ackno, {FIN})
                       ELSE ctcp_send_possible_data_segment(s1)
          ELSE [s EXCEPT !.ack_state.counter = c]
  ELSE LET s1 == ctcp_send_possible_data_segment(s)
       IN IF Len(s1.rx_state) > 0 THEN ctcp_output(s1, space, accept) ELSE s1

(***************************************************************************)
(* The hosts' environment: configuration, source, sink, carrier.           *)
(***************************************************************************)
SendWindow == WindowSegs * MaxSegData
RcvWindow == WindowSegs * MaxSegData

\* Host A's source supplies up to MaxBytes bytes and may end; host B's source
\* stays open and silent.
SrcBytes(e) == IF e = "A" THEN MaxBytes ELSE 0
SrcCloses(e) == e = "A"

\* <<conn_bufspace, bytes the sink takes>>: a full sink, a sink with one byte
\* of room, a sink with room that writes one byte only (a short write), and
\* a sink with room for everything.
SinkAny == {<<0, 0>>, <<1, 1>>, <<RcvWindow, 1>>, <<RcvWindow, RcvWindow>>}
\* A sink that always has room and never writes short.
SinkFree == {<<RcvWindow, RcvWindow>>}

RECURSIVE SumSeq(_)
SumSeq(q) == IF q = <<>> THEN 0 ELSE Head(q) + SumSeq(Tail(q))

\* The payload sizes of the conn_input calls of one ctcp_read, given that
\* `room` bytes of the source are left.
ChunkSizes(room) ==
  {q \in UNION {[1..n -> 1..MaxSegData] : n \in 0..MaxChunks} :
     SumSeq(q) <= room}

\* The bytes of a source are numbered: byte k of the stream has value k.
RECURSIVE Chunks(_, _)
Chunks(from, sizes) ==
  IF sizes = <<>> THEN <<>>
  ELSE <<[i \in 1..Head(sizes) |-> from + i]>>
       \o Chunks(from + Head(sizes), Tail(sizes))

(***************************************************************************)
(* Initial state: ctcp_init on both hosts.                                 *)
(***************************************************************************)
ctcp_init ==
  [conn_state |-> [seqno |-> 1, next_seqno |-> 1, ackno |-> 1,
                   last_ackno |-> 1, send_window |-> SendWindow,
                   send_window_used |-> 0, rcv_window |-> RcvWindow,
                   rcv_window_used |-> 0],
   ack_state |-> [time_out |-> FALSE, time_out_num |-> 0, counter |-> 0,
                  timer_overflow |-> TimerOverflow],
   segment_teardown |-> NO_CLOSE,
   tx_state |-> <<>>,
   rx_state |-> <<>>]

Init ==
  /\ conn_state = [e \in Procs |-> ctcp_init.conn_state]
  /\ ack_state = [e \in Procs |-> ctcp_init.ack_state]
  /\ tx_state = [e \in Procs |-> ctcp_init.tx_state]
  /\ rx_state = [e \in Procs |-> ctcp_init.rx_state]
  /\ segment_teardown = [e \in Procs |-> ctcp_init.segment_teardown]
  /\ state_list = [e \in Procs |-> <<e>>]
  /\ hung = [e \in Procs |-> FALSE]
  /\ chan = [e \in Procs |-> <<>>]
  /\ src_read = [e \in Procs |-> <<>>]
  /\ src_eof = [e \in Procs |-> FALSE]
  /\ sink = [e \in Procs |-> <<>>]
  /\ sink_eof = [e \in Procs |-> FALSE]
  /\ last = [op |-> "init", verdict |-> "none", out |-> <<>>]

(***************************************************************************)
(* Handler invocations.                                                    *)
(***************************************************************************)
\* The engine of host e as the record the handlers work on.
Pack(e) ==
  [conn_state |-> conn_state[e], ack_state |-> ack_state[e],
   tx_state |-> tx_state[e], rx_state |-> rx_state[e],
   segment_teardown |-> segment_teardown[e],
   live |-> TRUE, hung |-> FALSE, out |-> <<>>,
   sink |-> sink[e], sink_eof |-> sink_eof[e]]

\* The engine of host e after a handler left it as r.
Store(e, r) ==
  /\ conn_state' = [conn_state EXCEPT ![e] = r.conn_state]
  /\ ack_state' = [ack_state EXCEPT ![e] = r.ack_state]
  /\ tx_state' = [tx_state EXCEPT ![e] = r.tx_state]
  /\ rx_state' = [rx_state EXCEPT ![e] = r.rx_state]
  /\ segment_teardown' = [segment_teardown EXCEPT ![e] = r.segment_teardown]
  /\ state_list' = [state_list EXCEPT ![e] = IF r.live THEN @ ELSE <<>>]
  /\ hung' = [hung EXCEPT ![e] = r.hung]
  /\ sink' = [sink EXCEPT ![e] = r.sink]
  /\ sink_eof' = [sink_eof EXCEPT ![e] = r.sink_eof]

\* The host runs its event loop: its engine lives and no handler is stuck.
Running(e) == state_list[e] # <<>> /\ ~hung[e]

\* The environment's choices are enumerated only for the handlers that can
\* consult them: the sink for a DATA segment or a tick that reaches
\* ctcp_output, the busy-wait outcome where a loop on a non-empty queue is
\* reached.
OneSink == {<<RcvWindow, RcvWindow>>}
OneSpin == {"skip"}
BothSpins == {"hang", "skip"}

\* ctcp_read on host e, called because the source is readable: conn_input
\* returns data or the end of the source.  open: the peer is the environment,
\* and what the engine emits is recorded in last instead of chan.  ends: the
\* source may report its end in this call.
ReadStep(e, open, ends) ==
  /\ Running(e)
  /\ ~src_eof[e]
  /\ Len(chan[Peer(e)]) < ChanCap
  /\ \E sizes \in ChunkSizes(SrcBytes(e) - Len(src_read[e])),
        term \in {0, -1}, spin \in BothSpins :
       LET chunks == Chunks(Len(src_read[e]), sizes)
           r == ctcp_read(Pack(e), chunks, term, spin)
       IN /\ term = -1 => ends /\ SrcCloses(e)
          /\ term = 0 => sizes # <<>> /\ spin = "skip"
          /\ Store(e, r)
          /\ src_read' = [src_read EXCEPT
                            ![e] = @ \o [i \in 1..SumSeq(sizes) |-> Len(@) + i]]
          /\ src_eof' = [src_eof EXCEPT ![e] = (term = -1)]
          /\ chan' = IF open THEN chan
                     ELSE [chan EXCEPT ![Peer(e)] = @ \o r.out]
          /\ last' = IF open
                     THEN [op |-> "read", verdict |-> "none", out |-> r.out]
                     ELSE last

\* ctcp_receive on host e for datagram d.
ReceiveStep(e, d, Sinks, open) ==
  /\ Running(e)
  /\ \E sk \in IF IsData(d.segment) THEN Sinks ELSE OneSink,
        spin \in IF FIN \in d.segment.flags /\ rx_state[e] # <<>>
                 THEN BothSpins ELSE OneSpin :
       LET r == ctcp_receive(Pack(e), d.segment, d.len, sk[1], sk[2], spin)
       IN /\ Store(e, r)
          /\ chan' = IF open THEN chan
                     ELSE [chan EXCEPT ![e] = Tail(@),
                                       ![Peer(e)] = @ \o r.out]
          /\ last' = IF open
                     THEN [op |-> "receive", verdict |-> Verdict(d),
                           out |-> r.out]
                     ELSE last
  /\ UNCHANGED <<src_read, src_eof>>

\* ctcp_timer on host e: the walk over its registry.
TimerStep(e, Sinks, open, limit) ==
  /\ Running(e)
  /\ ack_state[e].time_out_num < limit
  /\ Len(chan[Peer(e)]) < ChanCap
  /\ \E sk \in IF ~ack_state[e].time_out /\ rx_state[e] # <<>>
                THEN Sinks ELSE OneSink :
       LET r == TimerEngine(Pack(e), sk[1], sk[2])
       IN /\ Store(e, r)
          /\ chan' = IF open THEN chan
                     ELSE [chan EXCEPT ![Peer(e)] = @ \o r.out]
          /\ last' = IF open
                     THEN [op |-> "timer", verdict |-> "none", out |-> r.out]
                     ELSE last
  /\ UNCHANGED <<src_read, src_eof>>

(***************************************************************************)
(* Two engines on a lossless, in-order carrier, each writing to a sink     *)
(* that has room and never writes short.                                   *)
(***************************************************************************)
Read(e) == ReadStep(e, FALSE, TRUE)

Receive(e) ==
  /\ chan[e] # <<>>
  /\ ReceiveStep(e, Head(chan[e]), SinkFree, FALSE)

Timer(e) == TimerStep(e, SinkFree, FALSE, MaxRetx)

\* A datagram for a host whose engine was destroyed finds no socket.
Discard(e) ==
  /\ state_list[e] = <<>>
  /\ chan[e] # <<>>
  /\ chan' = [chan EXCEPT ![e] = Tail(@)]
  /\ UNCHANGED <<conn_state, ack_state, tx_state, rx_state, segment_teardown,
                 state_list, hung, src_read, src_eof, sink, sink_eof, last>>

Next ==
  \E e \in Procs : Read(e) \/ Receive(e) \/ Timer(e) \/ Discard(e)

Spec == Init /\ [][Next]_vars

(***************************************************************************)
(* The data transfer alone: the lossless carrier while A's source stays    *)
(* open, so that no teardown starts and no busy-wait loop is reached.      *)
(***************************************************************************)
Feed(e) == ReadStep(e, FALSE, FALSE)

TransferNext == \E e \in Procs : Feed(e) \/ Receive(e) \/ Timer(e)

TransferSpec == Init /\ [][TransferNext]_vars

(***************************************************************************)
(* The data transfer on a carrier that may drop DATA segments.             *)
(***************************************************************************)
Drop(e) ==
  /\ chan[e] # <<>>
  /\ IsData(Head(chan[e]).segment)
  /\ chan' = [chan EXCEPT ![e] = Tail(@)]
  /\ UNCHANGED <<conn_state, ack_state, tx_state, rx_state, segment_teardown,
                 state_list, hung, src_read, src_eof, sink, sink_eof, last>>

LossyNext ==
  \E e \in Procs : Feed(e) \/ Receive(e) \/ Timer(e) \/ Drop(e)

LossySpec == Init /\ [][LossyNext]_vars

(***************************************************************************)
(* One engine, host A, on an open carrier: the peer is the environment and *)
(* delivers any datagram, valid or not; the sink may be full or write      *)
(* short.                                                                  *)
(***************************************************************************)
MkSeg(seqno, ackno, flags, data) ==
  LET seg0 == [seqno |-> seqno, ackno |-> ackno,
               len |-> HeaderSize + Len(data), cksum |-> 0, flags |-> flags,
               data |-> data]
  IN [seg0 EXCEPT !.cksum = cksum(seg0)]

\* Payloads of the open carrier are zero bytes.
Zeros(n) == [i \in 1..n |-> 0]

InjSegs ==
  {MkSeg(q, 1, {}, Zeros(n)) : q \in 1..MaxInjNo, n \in 1..MaxSegData}
  \cup {MkSeg(1, a, {ACK}, <<>>) : a \in 1..(MaxBytes + 2)}
  \cup {MkSeg(q, 1, {FIN}, <<>>) : q \in 1..MaxInjNo}
  \cup {MkSeg(1, 1, {FIN, ACK}, <<>>)}

\* One bit of the checksum field flipped in flight.
Corrupt(seg) ==
  [seg EXCEPT !.cksum = IF @ % 2 = 0 THEN @ + 1 ELSE @ - 1]

InjDgrams ==
  {[segment |-> g, len |-> g.len] : g \in InjSegs}
  \cup {[segment |-> Corrupt(g), len |-> g.len] : g \in InjSegs}
  \cup {[segment |-> g, len |-> g.len - 1] : g \in InjSegs}

OpenRead == ReadStep("A", TRUE, TRUE)

\* The peer sends at most MaxSink payload bytes that the engine keeps.
OpenReceive ==
  \E d \in InjDgrams :
    /\ IsData(d.segment) =>
         Len(sink["A"]) + conn_state["A"].rcv_window_used
           + Len(d.segment.data) <= MaxSink
    /\ ReceiveStep("A", d, SinkAny, TRUE)

OpenTimer == TimerStep("A", SinkAny, TRUE, MaxRetx)

OpenNext == OpenRead \/ OpenReceive \/ OpenTimer

OpenSpec == Init /\ [][OpenNext]_vars

(***************************************************************************)
(* The lossless carrier under fair scheduling: the host's event loop keeps *)
(* ticking, keeps handing over the datagrams that arrived and keeps        *)
(* calling ctcp_read while the source is readable.  The carrier is faster  *)
(* than the tick: a tick finds no datagram in flight.  The number of       *)
(* timeouts is not limited here: time_out_num wraps as a uint8_t.          *)
(***************************************************************************)
FairTimer(e) ==
  /\ chan[e] = <<>>
  /\ chan[Peer(e)] = <<>>
  /\ TimerStep(e, SinkFree, FALSE, 256)

FairNext ==
  \E e \in Procs : Read(e) \/ Receive(e) \/ FairTimer(e) \/ Discard(e)

FairSpec ==
  /\ Init
  /\ [][FairNext]_vars
  /\ \A e \in Procs :
       /\ WF_vars(Read(e))
       /\ WF_vars(Receive(e))
       /\ WF_vars(FairTimer(e))
       /\ WF_vars(Discard(e))

(***************************************************************************)
(* Host A on a silent carrier: what it emits is lost and nothing is ever   *)
(* received.  rt_timeout / timer of the configuration gives any            *)
(* timer_overflow >= 1.  The host keeps ticking; time_out_num is a uint8_t *)
(* and wraps.                                                              *)
(***************************************************************************)
SilentInit ==
  /\ \E n \in 1..TimerOverflow :
       ack_state = [e \in Procs |->
                      [ctcp_init.ack_state EXCEPT !.timer_overflow = n]]
  /\ conn_state = [e \in Procs |-> ctcp_init.conn_state]
  /\ tx_state = [e \in Procs |-> ctcp_init.tx_state]
  /\ rx_state = [e \in Procs |-> ctcp_init.rx_state]
  /\ segment_teardown = [e \in Procs |-> ctcp_init.segment_teardown]
  /\ state_list = [e \in Procs |-> <<e>>]
  /\ hung = [e \in Procs |-> FALSE]
  /\ chan = [e \in Procs |-> <<>>]
  /\ src_read = [e \in Procs |-> <<>>]
  /\ src_eof = [e \in Procs |-> FALSE]
  /\ sink = [e \in Procs |-> <<>>]
  /\ sink_eof = [e \in Procs |-> FALSE]
  /\ last = [op |-> "init", verdict |-> "none", out |-> <<>>]

SilentRead == ReadStep("A", TRUE, FALSE)

\* ctcp_timer on host A; the engine's Receive Queue is empty, the sink is not
\* consulted.
SilentTimer ==
  /\ Running("A")
  /\ \E r \in {TimerEngine(Pack("A"), RcvWindow, RcvWindow)} :
       /\ Store("A", r)
       /\ last' = [op |-> "timer", verdict |-> "none", out |-> r.out]
  /\ UNCHANGED <<chan, src_read, src_eof>>

SilentNext == SilentRead \/ SilentTimer

SilentSpec == SilentInit /\ [][SilentNext]_vars /\ WF_vars(SilentTimer)

(***************************************************************************)
(* Host A as a sender facing an arbitrary peer: the peer answers with any  *)
(* valid ACK, FIN or FIN+ACK segment and sends no data.                    *)
(***************************************************************************)
Dgram(g) == [segment |-> g, len |-> g.len]

AckSegs == {g \in InjSegs : g.flags = {ACK}}

SenderSegs == {g \in InjSegs : ~IsData(g)}

SenderRead == ReadStep("A", TRUE, TRUE)

SenderReceive ==
  \E g \in SenderSegs : ReceiveStep("A", Dgram(g), OneSink, TRUE)

SenderTimer == TimerStep("A", OneSink, TRUE, MaxRetx)

SenderNext == SenderRead \/ SenderReceive \/ SenderTimer

SenderSpec == Init /\ [][SenderNext]_vars

(***************************************************************************)
(* The receiving side alone: host A is handed valid DATA segments with     *)
(* distinguishable payload bytes, and its sink may be full or write short. *)
(***************************************************************************)
Payloads == UNION {[1..n -> 1..2] : n \in 1..MaxSegData}

ReceiverSegs == {MkSeg(q, 1, {}, b) : q \in 1..MaxInjNo, b \in Payloads}

ReceiverReceive ==
  \E g \in ReceiverSegs :
    /\ Len(sink["A"]) + conn_state["A"].rcv_window_used + Len(g.data)
         <= MaxSink
    /\ ReceiveStep("A", Dgram(g), SinkAny, TRUE)

ReceiverTimer == TimerStep("A", SinkAny, TRUE, MaxRetx)

ReceiverNext == ReceiverReceive \/ ReceiverTimer

ReceiverSpec == Init /\ [][ReceiverNext]_vars

(***************************************************************************)
(* The sending side up to the forced close: host A reads data that the     *)
(* peer acknowledges late or never, so that the retransmit timer may reach *)
(* its sixth timeout before an ACK arrives.                                *)
(***************************************************************************)
ClosingRead == ReadStep("A", TRUE, FALSE)

ClosingReceive == \E g \in AckSegs : ReceiveStep("A", Dgram(g), OneSink, TRUE)

ClosingTimer == TimerStep("A", OneSink, TRUE, TimeoutLimit + 1)

ClosingNext == ClosingRead \/ ClosingReceive \/ ClosingTimer

ClosingSpec == Init /\ [][ClosingNext]_vars

(***************************************************************************)
(* Properties.                                                             *)
(***************************************************************************)
IsPrefix(p, q) == Len(p) <= Len(q) /\ p = SubSeq(q, 1, Len(p))

RECURSIVE Queued(_)
Queued(rx) ==
  IF rx = <<>> THEN <<>>
  ELSE SubSeq(Head(rx).rx_buffer, Head(rx).byte_used + 1,
              Len(Head(rx).rx_buffer)) \o Queued(Tail(rx))

\* The bytes host e has accepted: written to the sink or still queued.
Accepted(e) == sink[e] \o Queued(rx_state[e])

\* Host e handles the datagram at the head of its channel in this step.
Handles(e) ==
  /\ Running(e)
  /\ chan[e] # <<>>
  /\ chan'[e] = Tail(chan[e])

\* C1: on the lossless carrier, what B has written to its sink is at all
\* times a prefix of what A has read from its source.
C1_SinkIsPrefixOfSource == IsPrefix(sink["B"], src_read["A"])

\* C2: on the carrier that may drop DATA segments, whenever A's Send Queue
\* has been emptied by acknowledgements, the bytes B has accepted are exactly
\* the bytes A read.
C2_AckedMeansAccepted ==
  (/\ state_list["A"] # <<>> /\ state_list["B"] # <<>>
   /\ src_read["A"] # <<>>
   /\ tx_state["A"] = <<>>)
  => Accepted("B") = src_read["A"]

\* C3: under fair scheduling, once A's source has ended after A read some
\* bytes, eventually every byte read is in B's sink and both engines are
\* destroyed.
C3_TransferAndTeardownComplete ==
  (src_eof["A"] /\ src_read["A"] # <<>>)
    ~> (/\ sink["B"] = src_read["A"]
        /\ state_list["A"] = <<>>
        /\ state_list["B"] = <<>>)

\* C4: a payload is appended to the Receive Queue only if the segment's
\* sequence number equals the engine's ackno.
C4_AppendOnlyAtAckno ==
  [][\A e \in Procs :
       (Handles(e) /\ Len(Accepted(e)') > Len(Accepted(e)))
       => Head(chan[e]).segment.seqno = conn_state[e].ackno]_vars

\* C5: last_ackno <= ackno in every state, and no step decreases ackno or
\* last_ackno.
C5_AcknoMonotonic ==
  [][\A e \in Procs :
       /\ conn_state'[e].last_ackno <= conn_state'[e].ackno
       /\ conn_state'[e].ackno >= conn_state[e].ackno
       /\ conn_state'[e].last_ackno >= conn_state[e].last_ackno]_vars

\* C6: send_window_used <= send_window in every state; a decrement below
\* zero would wrap to a 16-bit value above send_window.
C6_SendWindowBound ==
  \A e \in Procs :
    conn_state[e].send_window_used <= conn_state[e].send_window

\* C6 witness: the window is in use, an element waits behind it untransmitted
\* and a cumulative ACK has already removed acknowledged elements.
C6_Witness ==
  /\ conn_state["A"].seqno > 1
  /\ conn_state["A"].send_window_used > 0
  /\ \E i \in 1..Len(tx_state["A"]) :
       tx_state["A"][i].segment_next_seqno = 0

\* C7: rcv_window_used <= rcv_window in every state; a decrement below zero
\* would wrap to a 16-bit value above rcv_window.
C7_RcvWindowBound ==
  \A e \in Procs :
    conn_state[e].rcv_window_used <= conn_state[e].rcv_window

\* C7 witness: the sink wrote short, so the head of the Receive Queue is
\* partly delivered and part of the window is still in use.
C7_Witness ==
  /\ rx_state["A"] # <<>>
  /\ Head(rx_state["A"]).byte_used > 0
  /\ Head(rx_state["A"]).byte_left > 0
  /\ conn_state["A"].rcv_window_used > 0
  /\ last.op = "receive"

\* C8: a datagram whose checksum does not verify leaves the queues, the
\* counters, the timer state and the teardown state unchanged.
C8_BadCksumChangesNothing ==
  [][(last'.op = "receive" /\ last'.verdict = "bad_cksum")
     => UNCHANGED <<conn_state, ack_state, tx_state, rx_state,
                    segment_teardown, state_list, hung, sink, sink_eof>>]_vars

\* C8 witness: a corrupted datagram was handled by an engine with a
\* non-empty Send Queue, a non-empty Receive Queue and an armed timer.
C8_Witness ==
  /\ last.op = "receive"
  /\ last.verdict = "bad_cksum"
  /\ tx_state["A"] # <<>>
  /\ rx_state["A"] # <<>>
  /\ ack_state["A"].time_out

\* C9: a datagram that fails validation makes ctcp_receive emit no segment.
C9_InvalidEmitsNothing ==
  (last.op = "receive" /\ last.verdict # "valid") => last.out = <<>>

\* C10: replaying a DATA segment whose payload the receiver has already
\* accepted and delivered changes no counter and no queue, writes nothing to
\* the sink and emits exactly one ACK carrying last_ackno.
C10_ReplayIsIdempotent ==
  [][\A e \in Procs :
       (/\ Handles(e)
        /\ IsData(Head(chan[e]).segment)
        /\ Head(chan[e]).segment.data # <<>>
        /\ \A i \in 1..Len(Head(chan[e]).segment.data) :
             \E j \in 1..Len(sink[e]) :
               sink[e][j] = Head(chan[e]).segment.data[i])
       => /\ conn_state'[e] = conn_state[e]
          /\ rx_state'[e] = rx_state[e]
          /\ sink'[e] = sink[e]
          /\ Len(chan'[Peer(e)]) = Len(chan[Peer(e)]) + 1
          /\ LET a == chan'[Peer(e)][Len(chan'[Peer(e)])].segment
             IN a.flags = {ACK} /\ a.ackno = conn_state[e].last_ackno]_vars

\* C11: on a silent carrier, an engine that has sent data is eventually
\* destroyed and unlinked from the registry by the repeated timer ticks.
C11_SilentEngineDestroyed ==
  (tx_state["A"] # <<>> /\ ack_state["A"].time_out)
    ~> (state_list["A"] = <<>>)

\* C12: every handler invocation runs to completion: no engine is ever stuck
\* inside a handler.
C12_HandlersTerminate == \A e \in Procs : ~hung[e]

\* C13: for an armed engine in normal operation that receives nothing, a
\* tick emits nothing unless counter reaches timer_overflow; the first five
\* timeouts emit exactly one go-back-N pass; the sixth emits exactly one
\* FIN (seq = seqno, ack = ackno) and no data, leaves the timer armed and
\* sets teardown to ACTIVE_CLOSE.
C13_TimeoutSchedule ==
  [][(/\ last'.op = "timer"
      /\ ack_state["A"].time_out
      /\ segment_teardown["A"] = NO_CLOSE)
     => LET fires == U8(ack_state["A"].counter + 1)
                       = ack_state["A"].timer_overflow
            n == U8(ack_state["A"].time_out_num + 1)
            pass == ctcp_send_possible_data_segment(Pack("A")).out
            fin == ctcp_send_flags(Pack("A"), conn_state["A"].ackno,
                                   {FIN}).out
        IN /\ ~fires => last'.out = <<>>
           /\ (fires /\ n < TimeoutLimit) =>
                (last'.out = pass /\ segment_teardown'["A"] = NO_CLOSE)
           /\ (fires /\ n = TimeoutLimit) =>
                /\ last'.out = fin
                /\ ack_state'["A"].time_out
                /\ segment_teardown'["A"] = ACTIVE_CLOSE]_vars

\* C18: one ctcp_timer call increments an armed engine's counter exactly
\* once (resetting it to 0 when it reaches timer_overflow), increases
\* time_out_num by at most one and performs at most one timeout action.
C18_TickProcessesOnce ==
  [][(last'.op = "timer" /\ ack_state["A"].time_out)
     => LET c == U8(ack_state["A"].counter + 1)
            fires == c = ack_state["A"].timer_overflow
            pass == ctcp_send_possible_data_segment(Pack("A")).out
        IN /\ ack_state'["A"].counter = IF fires THEN 0 ELSE c
           /\ ack_state'["A"].time_out_num =
                IF fires THEN U8(ack_state["A"].time_out_num + 1)
                ELSE ack_state["A"].time_out_num
           /\ \/ last'.out = <<>>
              \/ last'.out = pass
              \/ /\ Len(last'.out) = 1
                 /\ last'.out[1].segment.flags = {FIN}]_vars

\* Host A handles the valid ACK-only segment g in this step while its
\* teardown is not PASSIVE_CLOSE.
HandlesAck(g) ==
  /\ segment_teardown["A"] # PASSIVE_CLOSE
  /\ ReceiveStep("A", Dgram(g), OneSink, TRUE)

\* The number of leading Send Queue elements that were transmitted and whose
\* tag is at most a.
RECURSIVE AckedCount(_, _)
AckedCount(tx, a) ==
  IF tx = <<>> THEN 0
  ELSE IF Head(tx).segment_next_seqno > 0 /\ Head(tx).segment_next_seqno <= a
       THEN 1 + AckedCount(Tail(tx), a)
  ELSE 0

RECURSIVE SumSizes(_)
SumSizes(tx) ==
  IF tx = <<>> THEN 0 ELSE Head(tx).buffer_size + SumSizes(Tail(tx))

\* C14 as stated: a valid ACK with number a, outside PASSIVE_CLOSE, removes
\* from the front of the Send Queue exactly the transmitted elements whose
\* tag is at most a; seqno becomes the tag of the last removed element,
\* send_window_used decreases by the removed payload lengths, the other
\* elements stay in order, and the timer is disarmed iff a = next_seqno.
AckEffect(g) ==
  LET tx == tx_state["A"]
      a == g.ackno
      k == AckedCount(tx, a)
  IN /\ \A i \in 1..Len(tx) :
          (tx[i].segment_next_seqno > 0
           /\ tx[i].segment_next_seqno <= a) => i <= k
     /\ tx_state'["A"] = SubSeq(tx, k + 1, Len(tx))
     /\ conn_state'["A"].seqno =
           IF k > 0 THEN tx[k].segment_next_seqno
           ELSE conn_state["A"].seqno
     /\ conn_state'["A"].send_window_used =
           conn_state["A"].send_window_used - SumSizes(SubSeq(tx, 1, k))
     /\ ack_state'["A"].time_out =
           (ack_state["A"].time_out /\ a # conn_state'["A"].next_seqno)

C14_CumulativeAck ==
  [][\A g \in AckSegs : HandlesAck(g) => AckEffect(g)]_vars

\* C14 amended: the statement of C14 holds whenever the Send Queue is not
\* empty; on an empty Send Queue the handler returns at once and leaves the
\* counters and the timer as they are, armed or not, whatever a is.
C14_CumulativeAckNonEmpty ==
  [][\A g \in AckSegs :
       HandlesAck(g) =>
         IF tx_state["A"] # <<>> THEN AckEffect(g)
         ELSE UNCHANGED <<tx_state, conn_state, ack_state>>]_vars

\* C14 witness: one ACK has removed two transmitted elements, an element
\* that was never transmitted stays queued and the timer is disarmed.
C14_Witness ==
  /\ last.op = "receive"
  /\ last.verdict = "valid"
  /\ conn_state["A"].seqno = 3
  /\ tx_state["A"] # <<>>
  /\ Head(tx_state["A"]).segment_next_seqno = 0
  /\ ~ack_state["A"].time_out

\* C15: after a valid ACK-only segment was handled outside PASSIVE_CLOSE,
\* counter = 0 and time_out_num = 0.
C15_AckResetsCounters ==
  [][\A g \in AckSegs :
       HandlesAck(g) =>
         /\ ack_state'["A"].counter = 0
         /\ ack_state'["A"].time_out_num = 0]_vars

\* C15 amended: counter and time_out_num are reset to 0 exactly when the
\* Send Queue is non-empty and the ACK number is at least the head element's
\* tag; an ACK below the head's tag and an ACK received on an empty Send
\* Queue leave both as they are.
C15_AckResetsCountersAtHead ==
  [][\A g \in AckSegs :
       HandlesAck(g) =>
         IF /\ tx_state["A"] # <<>>
            /\ g.ackno >= Head(tx_state["A"]).segment_next_seqno
         THEN /\ ack_state'["A"].counter = 0
              /\ ack_state'["A"].time_out_num = 0
         ELSE /\ ack_state'["A"].counter = ack_state["A"].counter
              /\ ack_state'["A"].time_out_num =
                    ack_state["A"].time_out_num]_vars

\* C15 witness: an ACK was handled that removed the head element and left a
\* transmitted element unacknowledged; the timer is armed, the counters are
\* zero.
C15_Witness ==
  /\ last.op = "receive"
  /\ last.verdict = "valid"
  /\ conn_state["A"].seqno > 1
  /\ tx_state["A"] # <<>>
  /\ Head(tx_state["A"]).segment_next_seqno > 0
  /\ ack_state["A"].time_out
  /\ ack_state["A"].counter = 0
  /\ ack_state["A"].time_out_num = 0

\* The length of the longest prefix of tx whose payload lengths sum to at
\* most w.
FitCount(tx, w) ==
  CHOOSE k \in 0..Len(tx) :
    /\ SumSizes(SubSeq(tx, 1, k)) <= w
    /\ k < Len(tx) => SumSizes(SubSeq(tx, 1, k + 1)) > w

\* The DATA segments a pass over tx emits, starting at seqno, carrying ackno.
PassSegs(tx, seqno, ackno, w) ==
  [i \in 1..FitCount(tx, w) |->
     Dgram(MkSeg(seqno + SumSizes(SubSeq(tx, 1, i - 1)), ackno, {},
                 tx[i].tx_buffer))]

DataOnly(out) == SelectSeq(out, LAMBDA d : IsData(d.segment))

\* Host A runs ctcp_send_possible_data_segment in this step: a ctcp_read that
\* returns, a tick with the timer disarmed, or a timeout in normal operation
\* before the sixth.
SendsPass ==
  \/ last'.op = "read" /\ ~hung'["A"]
  \/ /\ last'.op = "timer"
     /\ \/ ~ack_state["A"].time_out
        \/ /\ U8(ack_state["A"].counter + 1) = ack_state["A"].timer_overflow
           /\ U8(ack_state["A"].time_out_num + 1) # TimeoutLimit
           /\ segment_teardown["A"] = NO_CLOSE

\* C16: each pass of ctcp_send_possible_data_segment emits DATA segments for
\* the longest prefix of the Send Queue that fits send_window, in order, with
\* contiguous sequence numbers starting at seqno, ack = ackno and no flags;
\* afterwards send_window_used is the payload emitted, next_seqno = seqno +
\* send_window_used, and the timer is armed if a segment was emitted.
C16_SendPass ==
  [][SendsPass =>
       LET c == conn_state'["A"]
           tx == tx_state'["A"]
           k == FitCount(tx, c.send_window)
       IN /\ DataOnly(last'.out) = PassSegs(tx, c.seqno, c.ackno, c.send_window)
          /\ c.send_window_used = SumSizes(SubSeq(tx, 1, k))
          /\ c.next_seqno = c.seqno + c.send_window_used
          /\ k >= 1 => ack_state'["A"].time_out]_vars

\* C16 witness: a timeout retransmitted two segments after an ACK had
\* advanced seqno.
C16_Witness ==
  /\ last.op = "timer"
  /\ Len(DataOnly(last.out)) = 2
  /\ conn_state["A"].seqno > 1
  /\ ack_state["A"].time_out_num > 0

\* C20: between handler invocations the transmitted elements of the Send
\* Queue (tag > 0) form a prefix, their tags strictly increase, the first tag
\* is seqno plus the first payload length, and each later tag is the previous
\* tag plus the element's payload length.
C20_TagsFormPrefix ==
  \A e \in Procs :
    LET tx == tx_state[e]
    IN \A i \in 1..Len(tx) :
         tx[i].segment_next_seqno > 0 =>
           IF i = 1
           THEN tx[1].segment_next_seqno
                  = conn_state[e].seqno + tx[1].buffer_size
           ELSE /\ tx[i - 1].segment_next_seqno > 0
                /\ tx[i].segment_next_seqno > tx[i - 1].segment_next_seqno
                /\ tx[i].segment_next_seqno
                     = tx[i - 1].segment_next_seqno + tx[i].buffer_size

\* C20 witness: two transmitted elements are outstanding after a cumulative
\* ACK advanced seqno and a go-back-N pass retransmitted them.
C20_Witness ==
  /\ Len(tx_state["A"]) >= 2
  /\ tx_state["A"][2].segment_next_seqno > 0
  /\ conn_state["A"].seqno > 1
  /\ ack_state["A"].time_out_num > 0

\* What host e put on the carrier in this step.
Emitted(e) ==
  SubSeq(chan'[Peer(e)], Len(chan[Peer(e)]) + 1, Len(chan'[Peer(e)]))

\* The number of datagrams of out whose flags are exactly fl.
CountFlags(out, fl) ==
  Cardinality({i \in 1..Len(out) : out[i].segment.flags = fl})

\* C17: a valid FIN without ACK arriving at an engine in normal operation
\* (NO_CLOSE, the first case of "not ACTIVE_CLOSE") sets last_ackno to the
\* old ackno and ackno to seqno + 1, signals end-of-stream to the sink, emits
\* exactly one ACK and exactly one FIN, arms the timer and enters
\* PASSIVE_CLOSE; a valid ACK-only segment arriving in PASSIVE_CLOSE destroys
\* the engine.
C17_PassiveClose ==
  [][\A e \in Procs :
       Handles(e) =>
         LET seg == Head(chan[e]).segment
         IN /\ (seg.flags = {FIN} /\ segment_teardown[e] = NO_CLOSE) =>
                 /\ conn_state'[e].last_ackno = conn_state[e].ackno
                 /\ conn_state'[e].ackno = U32(seg.seqno + 1)
                 /\ sink_eof'[e]
                 /\ Len(Emitted(e)) = 2
                 /\ CountFlags(Emitted(e), {ACK}) = 1
                 /\ CountFlags(Emitted(e), {FIN}) = 1
                 /\ ack_state'[e].time_out
                 /\ segment_teardown'[e] = PASSIVE_CLOSE
            /\ (seg.flags = {ACK} /\ segment_teardown[e] = PASSIVE_CLOSE) =>
                 state_list'[e] = <<>>]_vars

\* The Receive Queue host A hands to ctcp_output when it receives DATA
\* segment g: the payload is appended if the receive window has room.
Appended(g) ==
  IF conn_state["A"].rcv_window_used + Len(g.data)
       <= conn_state["A"].rcv_window
  THEN Append(rx_state["A"], [byte_used |-> 0, byte_left |-> Len(g.data),
                              rx_buffer |-> g.data])
  ELSE rx_state["A"]

\* What this step's ctcp_output did with Receive Queue Q and sink sk.
OutputEffect(Q, sk) ==
  LET rx == rx_state'["A"]
      n == Len(Q) - Len(rx)
      W == SubSeq(sink'["A"], Len(sink["A"]) + 1, Len(sink'["A"]))
  IN /\ n >= 0
     /\ IsPrefix(sink["A"], sink'["A"])
     /\ W \o Queued(rx) = Queued(Q)
     /\ \A i \in 2..Len(rx) : rx[i] = Q[n + i]
     /\ rx # <<>> =>
          /\ rx[1].rx_buffer = Q[n + 1].rx_buffer
          /\ rx[1].byte_used >= Q[n + 1].byte_used
          /\ rx[1].byte_used + rx[1].byte_left = Len(rx[1].rx_buffer)
          /\ rx[1].byte_left > 0
     /\ (Q # <<>> /\ (sk[1] = 0 \/ Q[1].byte_left > sk[1])) =>
          (W = <<>> /\ n = 0)
     /\ Len(last'.out) = n
     /\ \A i \in 1..n :
          /\ last'.out[i].segment.flags = {ACK}
          /\ last'.out[i].segment.ackno = conn_state'["A"].ackno

\* C19: ctcp_output writes the queued bytes to the sink in the order they
\* were appended, each byte once, resuming at byte_used after a short write;
\* it writes nothing when the sink's free space is zero or smaller than the
\* head's byte_left; an element leaves the Receive Queue only when all its
\* bytes are written, and one ACK carrying ackno is emitted per removed
\* element and none otherwise.
C19_OutputFifoExactlyOnce ==
  [][\A sk \in SinkAny :
       /\ TimerStep("A", {sk}, TRUE, MaxRetx) =>
            OutputEffect(rx_state["A"], sk)
       /\ \A g \in ReceiverSegs :
            (~IsDuplicate(Pack("A"), g)
               /\ ReceiveStep("A", Dgram(g), {sk}, TRUE)) =>
              OutputEffect(Appended(g), sk)]_vars

\* C19 witness: after an earlier payload was delivered, a tick wrote the
\* head of the Receive Queue short: one of its two bytes is in the sink and
\* the other waits at offset byte_used.
C19_Witness ==
  /\ last.op = "timer"
  /\ rx_state["A"] # <<>>
  /\ rx_state["A"][1].byte_used = 1
  /\ rx_state["A"][1].byte_left = 1
  /\ Len(sink["A"]) = 2

\* C21: between handler invocations, an engine whose retransmit timer is
\* disarmed has no transmitted element (tag > 0) in its Send Queue, and its
\* send_window_used and counter are 0.
C21_InFlightCoveredByTimer ==
  \A e \in Procs :
    (Running(e) /\ ~ack_state[e].time_out) =>
      /\ \A i \in 1..Len(tx_state[e]) :
           tx_state[e][i].segment_next_seqno = 0
      /\ conn_state[e].send_window_used = 0
      /\ ack_state[e].counter = 0

\* C21 witness: an ACK for everything transmitted disarmed the timer while
\* an element that was never transmitted still waits in the Send Queue.
C21_Witness ==
  /\ last.op = "receive"
  /\ ~ack_state["A"].time_out
  /\ conn_state["A"].seqno > 1
  /\ tx_state["A"] # <<>>
  /\ Running("A")

\* C22: between handler invocations a live engine in ACTIVE_CLOSE or
\* PASSIVE_CLOSE has its retransmit timer armed (no received segment disarms
\* it while the engine is closing), and the teardown state never returns to
\* NO_CLOSE.
C22_PendingFinCoveredByTimer ==
  /\ [](\A e \in Procs :
         (Running(e) /\ segment_teardown[e] \in {ACTIVE_CLOSE, PASSIVE_CLOSE})
           => ack_state[e].time_out)
  /\ [][\A e \in Procs :
          segment_teardown[e] # NO_CLOSE =>
            segment_teardown'[e] # NO_CLOSE]_vars

====
